---- MODULE Spec2Model ----
(***************************************************************************)
(* Model of the rule-30 validator (validator/src/validator/mod.rs):        *)
(* the round loop Validator::run / do_step, the resync Validator::sync,    *)
(* the chunk scheduler, the exchange workers handle_connection running on  *)
(* the thread pool, and save_state (Spec); the construction Validator::new *)
(* (StartupSpec); normalize_response_data (NormalizeSpec) and its          *)
(* normalize_pair (PairSpec).                                              *)
(***************************************************************************)
EXTENDS Integers, Sequences, FiniteSets, TLC

\* ---------------------------------------------------------------- bounds
MaxPeers == 3          \* largest peer directory the chain returns
MaxStep == 8           \* the step a stored snapshot holds
MaxRounds == 1         \* rounds started in one run of the process
MaxLanes == 3          \* lanes passed to normalize_response_data
EPOCH_LENGTH == 2      \* stand-in for the configured config::EPOCH_LENGTH

\* ------------------------------------------------------ program constants
BUFFER_CAP == 8 * 4 * 512
THREAD_POOL_SIZE == 256

Byte == {0, 1}         \* cell values exchanged with the peers
\* blocks the chain advances between two block queries: one short of an epoch, or an epoch
BlockAdvance == {EPOCH_LENGTH - 1, EPOCH_LENGTH}
Me == 1                \* keypair.account_id() of this validator

Min(a, b) == IF a < b THEN a ELSE b

\* ------------------------------------------------------- chunk scheduler
\* byte_count = (self.state.step / 4 + 1)
ByteCount(step) == step \div 4 + 1

\* chunk_size for connection_count n >= 1 (n = 0 divides by zero, see Dispatch)
ChunkSizeNoTieBreak(n, byte_count) == byte_count \div n

ChunkSizeTieBreakSwapped(n, byte_count) ==
    IF n % 2 = 1 THEN byte_count \div n + 1 ELSE byte_count \div n

ChunkSize(n, byte_count) ==
    IF n % 2 = 0 THEN byte_count \div n + 1 ELSE byte_count \div n

\* the arguments (start, end) handed to handle_connection for connection index
ChunkStart(index, cs) == index * cs
ChunkEndOverlapping(index, cs) == (index + 1) * cs + 1

ChunkEnd(index, cs) == (index + 1) * cs

\* ----------------------------------------------------- handle_connection
BufferSize(start, end) == Min(end - start, BUFFER_CAP)
Iterations(start, end) == (end - start) \div BufferSize(start, end)
From(start, end, i) == start + i * BufferSize(start, end)
To(start, end, i) == start + (i + 1) * BufferSize(start, end)

\* furthest offset any schedule within the bounds hands out
RowLen ==
    LET ends == {ChunkEnd(n - 1, ChunkSize(n, ByteCount(s))) :
                    n \in 1..MaxPeers, s \in 1..(MaxStep + MaxRounds)}
    IN CHOOSE m \in ends : \A e \in ends : e <= m
Offsets == 0..(RowLen - 1)

\* ------------------------------------------------------- peer directory
\* get_neurons: a directory of n neurons, each with its hotkey; this validator
\* is registered in it (as the first neuron) or not. The other fields of a
\* NeuronInfoLite are inputs of the step that reads them: last_update in sync,
\* axon_info in the connection attempts of do_step.
Directory(n, registered) ==
    [k \in 1..n |-> [hotkey |-> IF registered THEN k ELSE k + 1]]

Empty == [k \in {} |-> 0]

Hotkeys(ns) == [k \in 1..Len(ns) |-> ns[k].hotkey]
Zeros(n) == [k \in 1..n |-> 0]

\* find_neuron_info: index of the neuron whose hotkey is account_id, 0 if none
find_neuron_info(ns, account_id) ==
    IF \E k \in 1..Len(ns) : ns[k].hotkey = account_id
    THEN CHOOSE k \in 1..Len(ns) : ns[k].hotkey = account_id
    ELSE 0

\* the resize of sync: new_scores = vec![0; n]; new_scores[..len].copy_from_slice(scores)
ResizeScores(scores, n) ==
    [k \in 1..n |-> IF k <= Len(scores) THEN scores[k] ELSE 0]

VARIABLES
    pc,                  \* position of the coordinator in run / do_step
    panic_cause,         \* which panic ended the process, "none" while it runs
    state,               \* ValidatorState {step, hotkeys, scores}
    neurons,             \* self.neurons
    uid,                 \* self.uid
    last_metagraph_sync, \* self.last_metagraph_sync
    current_block,       \* do_step's local current_block
    rounds,              \* rounds started so far in this run
    current_row,         \* the Row Store, byte per offset
    snapshot,            \* state.json: <<>> if absent, else <<ValidatorState>>
    connections,         \* do_step's connections: index -> open stream
    chunk_size,          \* do_step's chunk_size
    w_pc,                \* per worker: position in handle_connection
    w_i,                 \* per worker: loop counter i
    w_sent,              \* per worker: return value of the last connection.write
    w_recv,              \* per worker: return value of the last connection.read
    accessed,            \* per worker: Row Store offsets it has touched this round
    info_step,           \* step printed by info!("Evolution step {}")
    error_step,          \* step printed by the last error!(..), 0 if the round logged none
    reconciled,          \* calls of normalize_response_data made by do_step so far
    sync_io,             \* locals of the sync that last ran: <<>> or <<[last_update, set_weights]>>
    st_pc,               \* Validator::new: position in the construction
    disk_row,            \* current_row.bin before the start: <<>> if absent, else <<bytes>>
    disk_column,         \* center_column.bin before the start: <<>> if absent, else <<byte 0>>
    center_column,       \* the Column Store, its byte at offset 0
    lists,               \* normalize_response_data: the lanes, corrected in place
    raw_lists,           \* normalize_response_data: the lanes as they were passed in
    normalized_outputs,  \* normalize_response_data: the returned Vec<u8>
    norm_i,              \* normalize_response_data: loop counter i
    norm_pc,             \* normalize_response_data: position in the function
    pair_in,             \* normalize_pair: the arguments (a, b)
    pair_out             \* normalize_pair: <<>> before the call, then the returned <<a, b>>

coord == <<pc, panic_cause, state, neurons, uid, last_metagraph_sync,
           current_block, rounds, snapshot, info_step, error_step, reconciled, sync_io>>
sched == <<connections, chunk_size>>
workers == <<w_pc, w_i, w_sent, w_recv, accessed>>
startup == <<st_pc, disk_row, disk_column, center_column>>
norm == <<lists, raw_lists, normalized_outputs, norm_i, norm_pc>>
pair == <<pair_in, pair_out>>
vars == <<coord, sched, workers, current_row, startup, norm, pair>>

Workers == DOMAIN w_pc      \* the jobs handed to the thread pool in this round
FinishedOnlyReturned(i) == w_pc[i] = "done"

\* the job of worker i is over: handle_connection returned or panicked
Finished(i) == w_pc[i] \in {"done", "failed"}
Running(i) == w_pc[i] \in {"write", "read"}

\* ------------------------------------------------------------------ Init
\* the construction is over: the stores are open, nothing is known of the disk before
StartupOver ==
    /\ st_pc = "ready"
    /\ disk_row = <<>>
    /\ disk_column = <<>>
    /\ center_column = 1

\* do_step never calls normalize_response_data or normalize_pair
NormalizeNotCalled ==
    /\ lists = <<>>
    /\ raw_lists = <<>>
    /\ normalized_outputs = <<>>
    /\ norm_i = 0
    /\ norm_pc = "none"

PairNotCalled ==
    /\ pair_in = <<>>
    /\ pair_out = <<>>

\* Validator::new: neurons and block from the chain, default state, the
\* stores opened, load_state, and the seed of offset 0 when step == 1.
DefaultState(ns) == [step |-> 1, hotkeys |-> Hotkeys(ns), scores |-> Zeros(Len(ns))]

\* what state.json can hold: a step, the hotkeys of a directory (the smallest
\* or the largest one) and one score per hotkey
Snapshots ==
    {[step |-> MaxStep, hotkeys |-> [k \in 1..h |-> k], scores |-> [k \in 1..h |-> k]] :
        h \in {1, MaxPeers}}

\* load_state: the snapshot replaces the default state when state.json exists
load_state(default, snap) == IF Len(snap) = 0 THEN default ELSE snap[1]

\* contents of current_row.bin when it is opened: zeros if just created, else
\* what earlier rounds left there
ZeroRow == [o \in Offsets |-> 0]
StoredRows(snap) ==
    IF Len(snap) = 0 THEN {ZeroRow} ELSE {[ZeroRow EXCEPT ![0] = 1]}

Init ==
    /\ pc = "do_step"
    /\ panic_cause = "none"
    /\ rounds = 0
    /\ current_block = 0
    /\ last_metagraph_sync = 0
    /\ \E n \in 1..MaxPeers : neurons = Directory(n, TRUE)
    /\ uid = find_neuron_info(neurons, Me) - 1
    /\ snapshot \in {<<>>} \cup {<<s>> : s \in Snapshots}
    /\ state = load_state(DefaultState(neurons), snapshot)
    /\ \E stored \in StoredRows(snapshot) :
          current_row = IF state.step = 1 THEN [stored EXCEPT ![0] = 1] ELSE stored
    /\ connections = Empty
    /\ chunk_size = 0
    /\ w_pc = Empty /\ w_i = Empty /\ w_sent = Empty /\ w_recv = Empty /\ accessed = Empty
    /\ info_step = 0
    /\ error_step = 0
    /\ reconciled = 0
    /\ sync_io = <<>>
    /\ StartupOver
    /\ NormalizeNotCalled
    /\ PairNotCalled

\* ------------------------------------------------------------ run / do_step
\* run: an Err of do_step is logged with self.state.step as it is then
LogError(st) == error_step' = st.step

\* do_step, lines 249-256: info!, get_block_number (may fail), the epoch test
GetBlock ==
    /\ pc = "do_step"
    /\ rounds < MaxRounds
    /\ rounds' = rounds + 1
    /\ info_step' = state.step
    /\ \E b \in {current_block + d : d \in BlockAdvance} :
         /\ \/ /\ current_block' = b
               /\ pc' = IF b - last_metagraph_sync >= EPOCH_LENGTH THEN "sync" ELSE "connect"
               /\ error_step' = 0
            \/ /\ LogError(state)
               /\ UNCHANGED <<pc, current_block>>
    /\ sync_io' = <<>>
    /\ UNCHANGED <<panic_cause, state, neurons, uid, last_metagraph_sync, snapshot,
                   reconciled, sched, workers, current_row, startup, norm, pair>>

\* line 214: block - neuron_info.last_update.0 >= EPOCH_LENGTH
SetWeightsDue(block, last_update) == block - last_update >= EPOCH_LENGTH

\* sync(Some(current_block)), lines 185-231; sync_io shows its locals when it is left
Sync ==
    /\ pc = "sync"
    /\ \/ \* get_neurons fails
          /\ LogError(state)
          /\ pc' = "do_step"
          /\ UNCHANGED <<panic_cause, state, neurons, uid, last_metagraph_sync, sync_io>>
       \/ \E n \in 0..MaxPeers, registered \in BOOLEAN, last_update \in {0, current_block} :
          /\ registered => n >= 1
          /\ neurons' = Directory(n, registered)
          /\ last_metagraph_sync' = current_block
          /\ LET info == find_neuron_info(neurons', Me)
                 resize == Len(state.hotkeys) # Len(neurons')
             IN IF info = 0
                THEN \* not_registered
                     /\ pc' = "panicked" /\ panic_cause' = "not_registered"
                     /\ UNCHANGED <<state, uid, error_step, sync_io>>
                ELSE /\ uid' = info - 1
                     /\ IF resize /\ Len(state.scores) > Len(neurons')
                        THEN \* new_scores[..self.state.scores.len()] out of range
                             /\ pc' = "panicked" /\ panic_cause' = "scores_slice"
                             /\ sync_io' = <<[last_update |-> last_update, set_weights |-> FALSE]>>
                             /\ UNCHANGED <<state, error_step>>
                        ELSE /\ state' = IF resize
                                         THEN [state EXCEPT !.scores = ResizeScores(state.scores, Len(neurons'))]
                                         ELSE state
                             /\ UNCHANGED panic_cause
                             /\ sync_io' = <<[last_update |-> last_update,
                                              set_weights |-> SetWeightsDue(current_block, last_update)]>>
                             /\ IF SetWeightsDue(current_block, last_update)
                                THEN \* set_weights succeeds or fails
                                     \/ pc' = "connect" /\ UNCHANGED error_step
                                     \/ pc' = "do_step" /\ LogError(state')
                                ELSE pc' = "connect" /\ UNCHANGED error_step
    /\ UNCHANGED <<current_block, rounds, snapshot, info_step, reconciled, sched, workers,
                   current_row, startup, norm, pair>>

\* do_step, lines 258-272: one TcpStream per neuron that accepts the connection
Connect ==
    /\ pc = "connect"
    /\ \E n \in 0..Len(neurons) : connections' = [i \in 0..(n - 1) |-> "stream"]
    /\ pc' = "dispatch"
    /\ sync_io' = <<>>
    /\ UNCHANGED <<panic_cause, state, neurons, uid, last_metagraph_sync, current_block,
                   rounds, snapshot, info_step, error_step, reconciled, chunk_size, workers,
                   current_row, startup, norm, pair>>

\* do_step, lines 274-288: chunk_size and one pool job per connection
Dispatch ==
    /\ pc = "dispatch"
    /\ LET connection_count == Cardinality(DOMAIN connections)
       IN IF connection_count = 0
          THEN \* 0 % 2 == 0, so byte_count / connection_count divides by zero
               /\ pc' = "panicked" /\ panic_cause' = "divide_by_zero"
               /\ UNCHANGED <<chunk_size, workers>>
          ELSE /\ chunk_size' = ChunkSize(connection_count, ByteCount(state.step))
               /\ w_pc' = [i \in DOMAIN connections |-> "queued"]
               /\ w_i' = [i \in DOMAIN connections |-> 0]
               /\ w_sent' = [i \in DOMAIN connections |-> 0]
               /\ w_recv' = [i \in DOMAIN connections |-> 0]
               /\ accessed' = [i \in DOMAIN connections |-> {}]
               /\ pc' = "join"
               /\ UNCHANGED panic_cause
    /\ UNCHANGED <<state, neurons, uid, last_metagraph_sync, current_block, rounds,
                   snapshot, info_step, error_step, reconciled, sync_io, connections,
                   current_row, startup, norm, pair>>

\* ------------------------------------------------------- handle_connection
Start(i) == ChunkStart(i, chunk_size)
End(i) == ChunkEnd(i, chunk_size)

\* a pool thread picks the job up; lines 234-236
HandleConnection(i) ==
    /\ w_pc[i] = "queued"
    /\ Cardinality({j \in Workers : Running(j)}) < THREAD_POOL_SIZE
    /\ w_pc' = [w_pc EXCEPT ![i] =
            IF BufferSize(Start(i), End(i)) = 0 THEN "failed"   \* division by zero
            ELSE IF Iterations(Start(i), End(i)) = 0 THEN "done"
            ELSE "write"]
    /\ UNCHANGED <<coord, sched, w_i, w_sent, w_recv, accessed, current_row, startup, norm, pair>>

\* connection.write(&current_row[from..to]).unwrap(), line 243
ConnectionWrite(i) ==
    /\ w_pc[i] = "write"
    /\ LET from == From(Start(i), End(i), w_i[i])
           to == To(Start(i), End(i), w_i[i])
       IN /\ accessed' = [accessed EXCEPT ![i] = @ \cup from..(to - 1)]
          /\ \/ \E k \in 1..(to - from) :
                  /\ w_sent' = [w_sent EXCEPT ![i] = k]
                  /\ w_pc' = [w_pc EXCEPT ![i] = "read"]
             \/ /\ w_pc' = [w_pc EXCEPT ![i] = "failed"]      \* Err: broken pipe
                /\ UNCHANGED w_sent
    /\ UNCHANGED <<coord, sched, w_i, w_recv, current_row, startup, norm, pair>>

\* the row after a read delivered the bytes data into [from, from + Len(data))
Received(row, from, data) ==
    [o \in Offsets |-> IF o >= from /\ o < from + Len(data) THEN data[o - from + 1] ELSE row[o]]

\* connection.read(&mut current_row[from..to]).unwrap(), line 244, and the loop step.
\* The read blocks for as long as the peer sends nothing: the action is then not
\* taken, and no fairness condition of Spec forces it.
ConnectionRead(i) ==
    /\ w_pc[i] = "read"
    /\ LET from == From(Start(i), End(i), w_i[i])
           to == To(Start(i), End(i), w_i[i])
           next == IF w_i[i] + 1 < Iterations(Start(i), End(i)) THEN "write" ELSE "done"
       IN /\ accessed' = [accessed EXCEPT ![i] = @ \cup from..(to - 1)]
          /\ \/ /\ \E k \in 1..(to - from) : \E data \in [1..k -> Byte] :
                     /\ current_row' = Received(current_row, from, data)
                     /\ w_recv' = [w_recv EXCEPT ![i] = k]
                /\ w_i' = [w_i EXCEPT ![i] = @ + 1]
                /\ w_pc' = [w_pc EXCEPT ![i] = next]
             \/ \* the peer closed the stream: Ok(0)
                /\ w_recv' = [w_recv EXCEPT ![i] = 0]
                /\ w_i' = [w_i EXCEPT ![i] = @ + 1]
                /\ w_pc' = [w_pc EXCEPT ![i] = next]
                /\ UNCHANGED current_row
             \/ \* connection reset: Err
                /\ w_pc' = [w_pc EXCEPT ![i] = "failed"]
                /\ UNCHANGED <<w_i, w_recv, current_row>>
    /\ UNCHANGED <<coord, sched, w_sent, startup, norm, pair>>

\* --------------------------------------------- join, step += 1, save_state
JoinWithoutWaiting == TRUE

\* a join that gives up on workers waiting for their peer
AllJoinedIgnoringBlocked == \A i \in Workers : w_pc[i] \notin {"queued", "write"}

\* thread_pool.join() returns: no job is queued or active
AllJoined == \A i \in Workers : Finished(i)

Join ==
    /\ pc = "join"
    /\ AllJoined
    /\ state' = [state EXCEPT !.step = @ + 1]
    /\ \/ snapshot' = <<state'>> /\ UNCHANGED error_step      \* save_state: Ok
       \/ UNCHANGED snapshot /\ LogError(state')               \* save_state: Err
    /\ pc' = "do_step"
    /\ connections' = Empty
    /\ w_pc' = Empty /\ w_i' = Empty /\ w_sent' = Empty /\ w_recv' = Empty /\ accessed' = Empty
    /\ UNCHANGED <<panic_cause, neurons, uid, last_metagraph_sync, current_block,
                   rounds, info_step, reconciled, sync_io, chunk_size, current_row,
                   startup, norm, pair>>

Next ==
    \/ GetBlock
    \/ Sync
    \/ Connect
    \/ Dispatch
    \/ \E i \in Workers : HandleConnection(i)
    \/ \E i \in Workers : ConnectionWrite(i)
    \/ \E i \in Workers : ConnectionRead(i)
    \/ Join

Spec == Init /\ [][Next]_vars

\* ------------------------------------------------------- Validator::new
\* the round loop has not started: run is entered only when new has returned
round == <<pc, rounds, current_block, last_metagraph_sync, uid, info_step, error_step,
           reconciled, sync_io, sched, workers>>

RoundLoopNotStarted ==
    /\ pc = "new"
    /\ rounds = 0
    /\ current_block = 0
    /\ last_metagraph_sync = 0
    /\ connections = Empty
    /\ chunk_size = 0
    /\ w_pc = Empty /\ w_i = Empty /\ w_sent = Empty /\ w_recv = Empty /\ accessed = Empty
    /\ info_step = 0
    /\ error_step = 0
    /\ reconciled = 0
    /\ sync_io = <<>>

\* what current_row.bin can hold when the process starts: earlier rounds wrote
\* the first bytes of the row
DiskRows == {[o \in Offsets |-> IF o = 0 THEN a ELSE IF o = 1 THEN b ELSE 0] : a \in Byte, b \in Byte}

\* the state in which new opens the stores: the directory has been read, the
\* default state is built, the files and state.json are as the last run left them
StartupInit ==
    /\ RoundLoopNotStarted
    /\ panic_cause = "none"
    /\ \E n \in 1..MaxPeers : neurons = Directory(n, TRUE)
    /\ uid = find_neuron_info(neurons, Me) - 1
    /\ state = DefaultState(neurons)
    /\ snapshot \in {<<>>} \cup {<<s>> : s \in Snapshots}
    /\ disk_row \in {<<>>} \cup {<<r>> : r \in DiskRows}
    /\ disk_column \in {<<>>} \cup {<<a>> : a \in Byte}
    /\ current_row = ZeroRow
    /\ center_column = 0
    /\ st_pc = "open"
    /\ NormalizeNotCalled
    /\ PairNotCalled

\* the mapping of a store file: its content, or a zero-filled file if there was none
OpenStore(disk, zeros) == IF disk = <<>> THEN zeros ELSE disk[1]

\* lines 115-116: CurrentRow::new("current_row.bin"), MemoryMappedFile::open("center_column.bin")
OpenStores ==
    /\ st_pc = "open"
    /\ current_row' = OpenStore(disk_row, ZeroRow)
    /\ center_column' = OpenStore(disk_column, 0)
    /\ st_pc' = "load_state"
    /\ UNCHANGED <<round, panic_cause, state, neurons, snapshot, disk_row, disk_column, norm, pair>>

\* line 130: validator.load_state().unwrap(); a state.json that does not parse panics
LoadState ==
    /\ st_pc = "load_state"
    /\ \/ /\ state' = load_state(state, snapshot)
          /\ st_pc' = "seed"
          /\ UNCHANGED panic_cause
       \/ /\ snapshot # <<>>
          /\ st_pc' = "panicked"
          /\ panic_cause' = "load_state"
          /\ UNCHANGED state
    /\ UNCHANGED <<round, neurons, snapshot, current_row, disk_row, disk_column, center_column,
                   norm, pair>>

\* lines 132-136: if validator.state.step == 1 { current_row[0] = 1; center_column[0] = 1; }
SeedInitialState ==
    /\ st_pc = "seed"
    /\ IF state.step = 1
       THEN /\ current_row' = [current_row EXCEPT ![0] = 1]
            /\ center_column' = 1
       ELSE UNCHANGED <<current_row, center_column>>
    /\ st_pc' = "ready"
    /\ UNCHANGED <<round, panic_cause, state, neurons, snapshot, disk_row, disk_column, norm, pair>>

StartupNext ==
    \/ OpenStores
    \/ LoadState
    \/ SeedInitialState

StartupSpec == StartupInit /\ [][StartupNext]_vars

\* ------------------------------------------------------- normalize_pair
\* the functions below are called on values only: no validator is running
NoValidator ==
    /\ RoundLoopNotStarted
    /\ panic_cause = "none"
    /\ neurons = <<>>
    /\ uid = 0
    /\ state = DefaultState(<<>>)
    /\ snapshot = <<>>
    /\ current_row = ZeroRow
    /\ st_pc = "none"
    /\ disk_row = <<>>
    /\ disk_column = <<>>
    /\ center_column = 0

validator == <<coord, sched, workers, current_row, startup>>

\* a u64 is the function from bit position 0..63 to the bit; a u8 is 0..255
U64_BITS == 64
U8_BITS == 8
U8 == 0..(2 ^ U8_BITS - 1)
BitPos == 0..(U64_BITS - 1)

\* a as u64, for a u8 a
AsU64(a) == [k \in BitPos |-> IF k < U8_BITS THEN (a \div (2 ^ k)) % 2 ELSE 0]

\* a as u8, for a u64 a: the low eight bits
RECURSIVE LowBits(_, _)
LowBits(w, n) == IF n = 0 THEN 0 ELSE LowBits(w, n - 1) + w[n - 1] * (2 ^ (n - 1))
AsU8(w) == LowBits(w, U8_BITS)

\* <<, >>, |, ^, & of u64: the bits shifted out are lost
Shl(w, n) == [k \in BitPos |-> IF k >= n THEN w[k - n] ELSE 0]
Shr(w, n) == [k \in BitPos |-> IF k + n < U64_BITS THEN w[k + n] ELSE 0]
BitOr(v, w) == [k \in BitPos |-> IF v[k] = 1 \/ w[k] = 1 THEN 1 ELSE 0]
BitXor(v, w) == [k \in BitPos |-> IF v[k] # w[k] THEN 1 ELSE 0]
BitAnd(v, w) == [k \in BitPos |-> IF v[k] = 1 /\ w[k] = 1 THEN 1 ELSE 0]

\* (1 << n) - 1
LowMask(n) == [k \in BitPos |-> IF k < n THEN 1 ELSE 0]

\* fn rule_30(a: u64) -> u64 { a ^ ((a << 1) | (a << 2)) }
rule_30(a) == BitXor(a, BitOr(Shl(a, 1), Shl(a, 2)))

\* the bit of b that takes the carry of a
CarryBitOfU8 == U8_BITS - 1

CARRY_BIT == 63

\* fn normalize_pair(a: u8, b: u8) -> (u8, u8), lines 314-330
normalize_pair(a8, b8) ==
    LET a0 == AsU64(a8)
        b0 == AsU64(b8)
        carry == BitAnd(a0, LowMask(1))
        a1 == Shr(a0, 1)
        b1 == BitOr(Shl(carry, CARRY_BIT), b0)
        a2 == rule_30(a1)
        b2 == rule_30(b1)
        msb == Shr(b2, CARRY_BIT)
        b3 == BitAnd(b2, LowMask(CARRY_BIT))
        a3 == BitOr(Shl(a2, 1), msb)
    IN <<AsU8(a3), AsU8(b3)>>

\* normalize_pair called on every pair of bytes
PairInit ==
    /\ NoValidator
    /\ NormalizeNotCalled
    /\ pair_in \in U8 \X U8
    /\ pair_out = <<>>

NormalizePair ==
    /\ pair_out = <<>>
    /\ pair_out' = normalize_pair(pair_in[1], pair_in[2])
    /\ UNCHANGED <<validator, norm, pair_in>>

PairSpec == PairInit /\ [][NormalizePair]_vars

\* --------------------------------------------- normalize_response_data
\* a lane is a Simd<u8, 32>: the function from index 0..31 to the byte
LANE == 32
LAST == 31
LaneIndex == 0..(LANE - 1)

\* the bytes at the two ends of a lane decide the pass; the ones between are copied
EdgeBytes == {0, 1, 128, 255}
Lanes == {[k \in LaneIndex |-> IF k = 0 THEN first ELSE IF k = LAST THEN last ELSE 0] :
            first \in EdgeBytes, last \in EdgeBytes}

ListsLen == Cardinality(DOMAIN lists)

\* to_array and extend_from_slice: the bytes of a lane appended in index order
ExtendFromSlice(out, lane) == out \o [k \in 1..LANE |-> lane[k - 1]]

PairInputFromFirstBytes(ls, i) == <<ls[i][0], ls[i + 1][0]>>

\* lines 339-342: the arguments of normalize_pair at boundary i
PairInput(ls, i) == <<ls[i][LAST], ls[i + 1][0]>>

AtLeastOneList(n) == n >= 1

\* line 356: if lists.len() > 1
MoreThanOneList(n) == n > 1

NormalizeInit ==
    /\ NoValidator
    /\ PairNotCalled
    /\ \E n \in 0..MaxLanes : lists \in [0..(n - 1) -> Lanes]
    /\ raw_lists = lists
    /\ normalized_outputs = <<>>
    /\ norm_i = 0
    /\ norm_pc = "for"

\* line 335 with no lane: lists.len() - 1 underflows; the debug build panics
\* there, the release build wraps and panics at lists[0]
NormalizeNoLane ==
    /\ norm_pc = "for"
    /\ ListsLen = 0
    /\ norm_pc' = "panicked"
    /\ UNCHANGED <<validator, pair, lists, raw_lists, normalized_outputs, norm_i>>

\* lines 335-353: one turn of the loop, the boundary between lanes i and i + 1
NormalizeBoundary ==
    /\ norm_pc = "for"
    /\ ListsLen >= 1
    /\ norm_i < ListsLen - 1
    /\ LET i == norm_i
           in == PairInput(lists, i)
           new == normalize_pair(in[1], in[2])
           current_list == [lists[i] EXCEPT ![LAST] = new[1]]
           next_list == [lists[i + 1] EXCEPT ![0] = new[2]]
       IN /\ lists' = [lists EXCEPT ![i] = current_list, ![i + 1] = next_list]
          /\ normalized_outputs' = ExtendFromSlice(normalized_outputs, current_list)
    /\ norm_i' = norm_i + 1
    /\ UNCHANGED <<validator, pair, raw_lists, norm_pc>>

\* lines 355-360: the loop is over, the last lane is added, the Vec returned
NormalizeReturn ==
    /\ norm_pc = "for"
    /\ ListsLen >= 1
    /\ norm_i = ListsLen - 1
    /\ normalized_outputs' =
            IF MoreThanOneList(ListsLen)
            THEN ExtendFromSlice(normalized_outputs, lists[ListsLen - 1])
            ELSE normalized_outputs
    /\ norm_pc' = "returned"
    /\ UNCHANGED <<validator, pair, lists, raw_lists, norm_i>>

NormalizeNext ==
    \/ NormalizeNoLane
    \/ NormalizeBoundary
    \/ NormalizeReturn

NormalizeSpec == NormalizeInit /\ [][NormalizeNext]_vars

\* ================================================================ claims
ConnectionCount == Cardinality(Workers)

\* C1: in a round with N >= 1 connections the ranges handed to the workers are
\* pairwise disjoint and increasing in the connection index, and under every
\* interleaving no Row Store offset is touched by two workers of the round.
C1_DisjointChunks ==
    pc = "join" =>
        \A i \in Workers : \A j \in Workers :
            i < j => /\ Start(i) <= Start(j)
                     /\ End(i) <= Start(j)
                     /\ accessed[i] \cap accessed[j] = {}

C1_Witness ==
    /\ pc = "join"
    /\ ConnectionCount = 3
    /\ \A i \in Workers : w_pc[i] = "done" /\ accessed[i] # {}

\* C2 as stated: chunk_size >= 1 for every N >= 1 and byte_count >= 1.
C2_ChunkSizeAtLeastOne ==
    pc = "join" => chunk_size >= 1

\* C2 amended: chunk_size >= 1 exactly when N is even or byte_count >= N;
\* for an odd N > byte_count the chunk_size is 0.
C2_ChunkSizeAmended ==
    pc = "join" =>
        LET N == ConnectionCount
            B == ByteCount(state.step)
        IN /\ N >= 1 /\ B >= 1
           /\ (N % 2 = 0 \/ B >= N) => chunk_size >= 1
           /\ (N % 2 = 1 /\ B < N) => chunk_size = 0

C2_Witness ==
    /\ pc = "join"
    /\ ConnectionCount = 2
    /\ ByteCount(state.step) = 1
    /\ chunk_size = 1

\* C3: with no reachable peer (N = 0) the coordinator does not divide by zero;
\* the round completes.
C3_NoPeerNoDivideByZero ==
    ~(pc = "panicked" /\ panic_cause = "divide_by_zero")

\* C4: the score vector is as long as the hotkeys sequence in every state.
C4_ScoresMatchHotkeys ==
    Len(state.scores) = Len(state.hotkeys)

\* C5: a resync that changes the directory from M to M' entries completes and
\* leaves a score vector of length M' with the first min(M, M') scores kept
\* and the entries from M on set to 0.
C5_ResizeKeepsScores ==
    [][(/\ pc = "sync"
        /\ Len(neurons) = Len(state.scores)
        /\ Len(neurons) = Len(state.hotkeys)
        /\ Len(neurons') # Len(neurons)
        /\ find_neuron_info(neurons', Me) # 0)
       => (/\ pc' # "panicked"
           /\ Len(state'.scores) = Len(neurons')
           /\ \A k \in 1..Min(Len(neurons), Len(neurons')) : state'.scores[k] = state.scores[k]
           /\ \A k \in (Len(neurons) + 1)..Len(neurons') : state'.scores[k] = 0)]_vars

\* C6: a sub-round of size S sends all S bytes and then overwrites the
\* sub-range with exactly S received bytes, also when a write accepts or a
\* read delivers fewer bytes at once.
C6_FullExchange ==
    \A i \in Workers :
        LET S == BufferSize(Start(i), End(i))
        IN /\ w_pc[i] = "read" => w_sent[i] = S
           /\ (w_pc[i] = "done" /\ w_recv[i] > 0) => w_recv[i] = S

\* the peer of worker i closed its socket before delivering a byte: the read
\* returned Ok(0), or the write or read returned an error
ClosedPeer(i) ==
    \/ w_pc[i] = "done" /\ w_recv[i] = 0
    \/ w_pc[i] = "failed" /\ End(i) > Start(i)

WorkerStep(i) == HandleConnection(i) \/ ConnectionWrite(i) \/ ConnectionRead(i)
JoinPersisted == Join /\ snapshot' = <<state'>>

\* C7: when a peer's socket closes after 0 bytes, its worker leaves every
\* Row Store byte outside its range [start, end) unmodified, the other workers
\* can still take every step of their exchange, and once all workers are over
\* the round completes: the step is incremented and the state persisted.
C7_ClosedPeerRound ==
    /\ [][\A i \in Workers :
            (w_pc[i] = "read" /\ w_pc'[i] # "read") =>
                \A o \in Offsets : (o < Start(i) \/ o >= End(i)) => current_row'[o] = current_row[o]]_vars
    /\ []((pc = "join" /\ \E i \in Workers : ClosedPeer(i)) =>
            /\ \A j \in Workers : w_pc[j] \in {"queued", "write", "read"} => ENABLED WorkerStep(j)
            /\ (\A j \in Workers : w_pc[j] \in {"done", "failed"}) => ENABLED JoinPersisted)
    /\ [][(pc = "join" /\ pc' # "join") =>
            /\ state'.step = state.step + 1
            /\ snapshot' = <<state'>> \/ error_step' = state'.step]_vars

C7_Witness ==
    /\ pc = "join"
    /\ \E i \in Workers : \E j \in Workers :
         /\ i # j
         /\ w_pc[i] = "done" /\ w_recv[i] = 0 /\ w_sent[i] > 0
         /\ w_pc[j] = "done" /\ w_recv[j] = End(j) - Start(j) /\ w_recv[j] = 2

\* C8: once the loop runs, no round error and no peer fault ends the process:
\* the block query, the connection attempts, the dispatch, the exchange and
\* the persistence never terminate the coordinator, and an error returned by
\* any step of the round leads back to the start of the next round.
C8_LoopGoesOn ==
    [][/\ pc \in {"do_step", "connect", "dispatch", "join"} => pc' # "panicked"
       /\ error_step' # error_step /\ error_step' # 0 => pc' = "do_step"]_vars

\* C9: an error of a round is logged with the step the round started with,
\* whichever step of the round failed.
C9_ErrorLoggedWithRoundStep ==
    error_step # 0 => error_step = info_step

\* C10: the step is incremented and the state persisted only after every
\* worker of the round is over, and outside the join no worker is running.
C10_JoinBarrier ==
    /\ [][(state'.step # state.step \/ snapshot' # snapshot \/ pc' = "dispatch") =>
            \A i \in Workers : w_pc[i] \in {"done", "failed"}]_vars
    /\ [](pc # "join" => \A i \in Workers : w_pc[i] \in {"done", "failed"})

C10_Witness ==
    /\ pc = "do_step"
    /\ rounds = 1
    /\ state.step = info_step + 1
    /\ snapshot = <<state>>
    /\ chunk_size = 2
    /\ current_row[3] = 1

\* C11: in every round with N >= 1 connections that reaches persistence, the
\* Boundary Reconciler (normalize_response_data) runs exactly once, after all
\* workers of the round have joined and before the step is incremented and
\* persisted: the step that leaves the join counts one more call.
C11_ReconciledOncePerRound ==
    [][(pc = "join" /\ pc' = "do_step") => reconciled' = reconciled + 1]_vars

\* the step in which do_step returns an Err and run logs it
RoundError == pc' = "do_step" /\ error_step' # 0

\* C12: when a round ends in a RoundError (block query, resync or persistence
\* failed) the round counter does not advance: the in-memory step and the step
\* of the persisted snapshot both have the values they had when the round started.
C12_RoundErrorKeepsStep ==
    [][RoundError => (state'.step = info_step' /\ snapshot' = snapshot)]_vars

\* worker i waits in connection.read for a peer that sends nothing
Blocked(i) == w_pc[i] = "read"

\* C15: if one connected peer never responds, the other workers of the round
\* can still complete their exchanges, but the coordinator stays blocked at
\* the join: as long as a worker waits for its silent peer the step is not
\* incremented and nothing is persisted.
C15_SilentPeerBlocksRound ==
    /\ [](\A i \in Workers : Blocked(i) =>
            /\ pc = "join"
            /\ \A j \in Workers \ {i} :
                   w_pc[j] \in {"queued", "write", "read"} => ENABLED WorkerStep(j))
    /\ [][(\E i \in Workers : Blocked(i)) =>
            (pc' = "join" /\ state' = state /\ snapshot' = snapshot)]_vars

C15_Witness ==
    /\ pc = "join"
    /\ ConnectionCount = 3
    /\ \E i \in Workers :
          /\ Blocked(i)
          /\ \A j \in Workers \ {i} : w_pc[j] = "done" /\ w_recv[j] = End(j) - Start(j)
    /\ state.step = info_step

\* C16: at the start of a round the coordinator resyncs if and only if
\* current_block minus the block of the last refresh is at least the epoch
\* length; a resync records the current block as the last refresh, so two
\* resyncs are never fewer than an epoch apart; and within a resync of the
\* registered validator the scores are submitted (set_weights is called) if
\* and only if current_block minus its own last_update is at least the epoch length.
C16_ResyncAndSubmitByEpoch ==
    [][/\ (pc = "do_step" /\ pc' \in {"sync", "connect"}) =>
            (pc' = "sync" <=> current_block' - last_metagraph_sync >= EPOCH_LENGTH)
       /\ (pc = "sync" /\ neurons' # neurons) => last_metagraph_sync' = current_block
       /\ last_metagraph_sync' # last_metagraph_sync =>
            last_metagraph_sync' - last_metagraph_sync >= EPOCH_LENGTH
       /\ (pc = "sync" /\ find_neuron_info(neurons', Me) # 0 /\ last_metagraph_sync' = current_block) =>
            /\ sync_io' # <<>>
            /\ sync_io'[1].set_weights <=>
                    current_block - sync_io'[1].last_update >= EPOCH_LENGTH]_vars

\* C18: every chunk [start, end) handed to a worker is cut into sub-ranges
\* that are contiguous, of at most BUFFER_CAP = 16384 bytes, inside the chunk and cover it
\* exactly, so that a worker that returns has exchanged its whole chunk; an
\* empty chunk yields no exchange and no failure.
C18_SubRangesCoverChunk ==
    \A i \in Workers :
        LET start == Start(i)
            end == End(i)
        IN /\ end = start => (w_pc[i] # "failed" /\ accessed[i] = {})
           /\ end > start =>
                LET n == Iterations(start, end)
                IN /\ From(start, end, 0) = start
                   /\ To(start, end, n - 1) = end
                   /\ \A k \in 0..(n - 1) :
                          /\ To(start, end, k) - From(start, end, k) \in 1..BUFFER_CAP
                          /\ k + 1 < n => From(start, end, k + 1) = To(start, end, k)
                   /\ accessed[i] \subseteq start..(end - 1)
                   /\ w_pc[i] = "done" => accessed[i] = start..(end - 1)

\* C19: for N >= 1 connections and byte_count B >= 1 the ranges of a round
\* reach beyond B when N is even (N * chunk_size > B), and stay within B when
\* N is odd, leaving a tail of B mod N bytes that no worker is given.
C19_OverrunOrTailGap ==
    pc = "join" =>
        LET N == ConnectionCount
            B == ByteCount(state.step)
        IN /\ N % 2 = 0 => N * chunk_size > B
           /\ N % 2 = 1 => (N * chunk_size <= B /\ B - N * chunk_size = B % N)

C19_Witness ==
    /\ pc = "join"
    /\ ConnectionCount = 2
    /\ ByteCount(state.step) = 3
    /\ w_pc[1] = "done"
    /\ 3 \in accessed[1]

\* C17: at startup offset 0 of the Row Store and of the Column Store is set
\* to 1 exactly when that store was newly created at this startup; a store
\* that already existed is left as it was, whatever the snapshot says.
C17_SeedOnlyNewStores ==
    st_pc = "ready" =>
        /\ disk_row = <<>> => current_row[0] = 1
        /\ disk_row # <<>> => current_row = disk_row[1]
        /\ disk_column = <<>> => center_column = 1
        /\ disk_column # <<>> => center_column = disk_column[1]

\* x XOR y and x OR y of natural numbers, bit by bit
RECURSIVE XorNat(_, _)
XorNat(x, y) ==
    IF x = 0 /\ y = 0 THEN 0
    ELSE (((x % 2) + (y % 2)) % 2) + 2 * XorNat(x \div 2, y \div 2)

RECURSIVE OrNat(_, _)
OrNat(x, y) ==
    IF x = 0 /\ y = 0 THEN 0
    ELSE (IF x % 2 = 1 \/ y % 2 = 1 THEN 1 ELSE 0) + 2 * OrNat(x \div 2, y \div 2)

\* r(v) = v XOR ((v << 1) OR (v << 2)), not truncated
Rule30Nat(v) == XorNat(v, OrNat(2 * v, 4 * v))

\* C20: for all bytes A and B, pair fix-up returns (A', B') with
\* B' = (B XOR ((B << 1) OR (B << 2))) mod 256 whatever A is, and
\* A' = ((r(A >> 1) << 1) OR (A AND 1)) mod 256 whatever B is, r being the same
\* map; the golden vector (A, B) = (1, 1) gives (1, 7).
C20_PairFixUp ==
    pair_out # <<>> =>
        LET A == pair_in[1]
            B == pair_in[2]
        IN /\ pair_out[2] = Rule30Nat(B) % 256
           /\ pair_out[1] = OrNat(2 * Rule30Nat(A \div 2), A % 2) % 256
           /\ (A = 1 /\ B = 1) => pair_out = <<1, 7>>

C20_Witness == pair_in = <<1, 1>> /\ pair_out = <<1, 7>>

\* C13: in a pass over L >= 2 lanes, at every boundary i the corrected pair
\* (last byte of lane i, first byte of lane i + 1) is pair fix-up applied to
\* the values those two bytes had before the pass: the bytes a boundary
\* writes are never inputs of the next boundary, whose inputs are still raw
\* when it is reached.
C13_BoundariesUseRawBytes ==
    ListsLen >= 2 =>
        /\ \A i \in 0..(norm_i - 1) :
               <<lists[i][LAST], lists[i + 1][0]>> =
                   normalize_pair(raw_lists[i][LAST], raw_lists[i + 1][0])
        /\ norm_i < ListsLen - 1 =>
               /\ lists[norm_i][LAST] = raw_lists[norm_i][LAST]
               /\ lists[norm_i + 1][0] = raw_lists[norm_i + 1][0]

C13_Witness ==
    /\ norm_pc = "returned"
    /\ ListsLen = 3
    /\ lists[1][0] # raw_lists[1][0]
    /\ lists[1][LAST] # raw_lists[1][LAST]
    /\ lists[2][0] # raw_lists[2][0]

\* the returned bytes are the lanes as they stand, one after the other
IsConcatenation(out, ls) ==
    /\ Len(out) = LANE * Cardinality(DOMAIN ls)
    /\ \A l \in DOMAIN ls : \A k \in LaneIndex : out[LANE * l + k + 1] = ls[l][k]

\* C14: for every input of L >= 1 lanes the reconciler returns a flat byte
\* sequence of length 32 * L: the concatenation, in lane order, of all lanes
\* as they stand after the in-place correction.
C14_ReturnsAllLanes ==
    norm_pc = "returned" => IsConcatenation(normalized_outputs, lists)

\* C14 as it holds: for L >= 2 lanes the result is the concatenation of all
\* the corrected lanes, 32 * L bytes; for a single lane the result is empty
\* and the lane is left as it was.
C14_ReturnsAllLanesOfTwoOrMore ==
    norm_pc = "returned" =>
        /\ ListsLen >= 2 => IsConcatenation(normalized_outputs, lists)
        /\ ListsLen = 1 => (normalized_outputs = <<>> /\ lists = raw_lists)

C14_Witness ==
    /\ norm_pc = "returned"
    /\ ListsLen = 3
    /\ Len(normalized_outputs) = 3 * LANE
    /\ normalized_outputs[LANE] # raw_lists[0][LAST]
    /\ normalized_outputs[LANE + 1] # raw_lists[1][0]
====
